---- MODULE Spec2Model ----
(***************************************************************************)
(* The browser front end of the option pricer (src/static/script.js): the  *)
(* method dropdown, the three asynchronous operations (fetch stock data,   *)
(* run simulation, analyze convergence), the displayed results and the     *)
(* two charts.  Every event handler is one action up to its first await;   *)
(* the arrival of the server's answer is an action of the environment;     *)
(* the rest of the handler (after `await fetch` and `await                 *)
(* response.json()`, between which no state of the page is read or         *)
(* written) is one more action.                                            *)
(*                                                                         *)
(* Numbers are fixed-point integers counting units of 10^-5, so that       *)
(* toFixed really rounds.  Texts are strings.                              *)
(***************************************************************************)
EXTENDS Integers, Sequences, FiniteSets, TLC

VARIABLES
    page,                     \* which optional elements the document has
    form,                     \* the .value of every input
    dropdown,                 \* custom dropdown: open class, selected options, trigger text
    fetchBtn,                 \* [text, disabled]
    simulateBtn,              \* [text, disabled]
    convergenceBtn,           \* [text, disabled, hidden]
    currentCurrency,          \* let currentCurrency
    labels,                   \* [currency: text of every .currency-label, volSource: text]
    display,                  \* results section, convergence section and the six result texts
    chartInstance,            \* let chartInstance: << >> is null, <<c>> a Chart
    convergenceChartInstance, \* let convergenceChartInstance
    fetchReq,                 \* the /api/get-stock-data request in flight, if any
    simReq,                   \* the /api/simulate request in flight, if any
    convReq,                  \* the /api/convergence request in flight, if any
    alerts,                   \* the alert() messages raised by the last step
    console,                  \* whether the last step called console.error
    lastClicked,              \* history: data-value of the most recently clicked option
    gestures,                 \* history: how many clicks, edits and submits the user made
    lastOk,                   \* history: the operation whose OK response was handled last
    declined                  \* history: a Fetch click has returned at line 67

vars == <<page, form, dropdown, fetchBtn, simulateBtn, convergenceBtn,
          currentCurrency, labels, display, chartInstance,
          convergenceChartInstance, fetchReq, simReq, convReq, alerts,
          console, lastClicked, gestures, lastOk,
          declined>>

(***************************************************************************)
(* Bounds of the model.                                                    *)
(***************************************************************************)
\* clicks, edits and submits the user makes in one run
MaxGestures == 3
\* trajectories of the smallest simulation run, and by how many the largest
\* run exceeds the number of paths a response carries
MaxPaths == 2

(***************************************************************************)
(* Number formatting.                                                      *)
(***************************************************************************)
RECURSIVE Pow10(_)
Pow10(k) == IF k = 0 THEN 1 ELSE 10 * Pow10(k - 1)

\* the decimal digits of n, left-padded with zeros to width w
RECURSIVE Pad(_, _)
Pad(n, w) == IF w = 0 THEN "" ELSE Pad(n \div 10, w - 1) \o ToString(n % 10)

\* Number.prototype.toFixed for a non-negative num (in units of 10^-5) and
\* digits <= 5: the nearest multiple of 10^-digits, the larger one on a tie.
ToFixed(num, digits) ==
    LET unit == Pow10(5 - digits)
        n    == (num + unit \div 2) \div unit
    IN  ToString(n \div Pow10(digits)) \o "." \o Pad(n % Pow10(digits), digits)

\* the fraction digits of frac (w digits wide) without trailing zeros
RECURSIVE Fraction(_, _)
Fraction(frac, w) ==
    IF w = 0 \/ frac = 0 THEN ""
    ELSE IF frac % 10 = 0 THEN Fraction(frac \div 10, w - 1)
    ELSE Pad(frac, w)

\* String(num): what assigning a number to an input's .value stores
NumberToString(num) ==
    LET whole == num \div Pow10(5)
        frac  == num % Pow10(5)
    IN  IF frac = 0 THEN ToString(whole)
        ELSE ToString(whole) \o "." \o Fraction(frac, 5)

\* String.prototype.toUpperCase on the ticker texts of the model
ToUpperCase(s) ==
    IF s = "aapl" THEN "AAPL" ELSE s

\* JSON.stringify of one payload field: a string value is quoted
JsonString(s) == "\"" \o s \o "\""

\* JSON.stringify of the number literal 0.0
JsonZero == "0"

(***************************************************************************)
(* The document.                                                           *)
(***************************************************************************)
\* data-value of the three .custom-option elements
Methods == {"standard", "antithetic", "control_variate"}

\* the elements the script looks up and tests for absence before use
\* (here: all of them, or all but one)
AllPresent == [q |-> TRUE, method |-> TRUE, convergenceBtn |-> TRUE]
Pages == {AllPresent} \cup {[AllPresent EXCEPT ![e] = FALSE] : e \in DOMAIN AllPresent}

\* the inputs' values when the page is loaded
InitialForm ==
    [ticker |-> "", S0 |-> "100", K |-> "105", T |-> "1", r |-> "0.05",
     sigma |-> "0.2", q |-> "0.0", steps |-> "100", method |-> "standard"]

\* what the user may type into an input
EditValues ==
    [ticker |-> {"", "aapl"}, q |-> {"0.0", "0.02"}]

\* the classes the markup gives the elements when the page is loaded
InitialClasses ==
    [convergenceBtnHidden |-> FALSE, resultsHidden |-> TRUE,
     convSectionHidden |-> TRUE, selected |-> {"standard"}]

NoChart == << >>
Idle == [phase |-> "idle"]

(***************************************************************************)
(* The servers' answers.                                                   *)
(***************************************************************************)
\* without(rec, f): the object rec with property f undefined
Without(rec, f) == [x \in DOMAIN rec \ {f} |-> rec[x]]

Has(rec, f) == f \in DOMAIN rec

\* /api/get-stock-data: the i-th quote; every second one names no currency
Quote(i) ==
    LET d == [current_price  |-> 9999500 + i * 1000000,
              volatility     |-> 20000 + i * 1235,
              risk_free_rate |-> 4000 + i * 250,
              currency       |-> "Rs"]
    IN  IF i % 2 = 0 THEN Without(d, "currency") ELSE d

Quotes == {Quote(1), Quote(2)}

\* a fetch() promise rejects, or resolves to a response whose body does or
\* does not parse as JSON
Rejected == [kind |-> "reject"]
BadJson == [kind |-> "badjson"]

FetchOutcomes ==
    {Rejected, BadJson}
    \cup {[kind |-> "json", ok |-> TRUE, data |-> d] :
             d \in Quotes \cup {Without(Quote(1), "volatility")}}
    \cup {[kind |-> "json", ok |-> FALSE, data |-> d] :
             d \in {[error |-> "Ticker not found"], [detail |-> "no error field"]}}


\* one simulated trajectory and the first n of them
Path(k) == <<10000000, 10000000 + k * 100000>>
Paths(n) == [k \in 1..n |-> Path(k)]

\* the simulate endpoint returns the first PathLimit of the n trajectories it
\* simulated
PathLimit == 20
ServerPaths(n) == Paths(IF n < PathLimit THEN n ELSE PathLimit)

\* /api/simulate: the i-th pricing result of a run of n trajectories
SimResult(i, n) ==
    [bs |-> [call_price |-> 1045055 + 10 * i, put_price |-> 557345 + 10 * i],
     mc |-> [call_price  |-> 1047005 + 10 * i, put_price   |-> 556005 + 10 * i,
             call_stderr |-> 3205 + 10 * i,    put_stderr  |-> 2105 + 10 * i,
             steps |-> <<0, 1>>, paths |-> ServerPaths(n)]]

SimResults == {SimResult(1, MaxPaths), SimResult(2, PathLimit + MaxPaths)}

\* results with one property missing
MalformedSimResults ==
    LET d == SimResult(1, 1)
    IN  {[d EXCEPT !.mc = Without(d.mc, "call_stderr")],
         [d EXCEPT !.mc = Without(d.mc, "paths")]}

ErrorBodies == {[error |-> "Invalid parameter"], [detail |-> "no error field"]}

SimOutcomes ==
    {Rejected, BadJson}
    \cup {[kind |-> "json", ok |-> TRUE, data |-> d] :
             d \in SimResults \cup MalformedSimResults}
    \cup {[kind |-> "json", ok |-> FALSE, data |-> d] : d \in ErrorBodies}

\* /api/convergence: a price-vs-sample-size curve
ConvResult ==
    [x |-> <<100, 1000>>, y |-> <<1040000, 1045000>>,
     bs_line |-> <<1045065, 1045065>>]

ConvOutcomes ==
    {Rejected, BadJson}
    \cup {[kind |-> "json", ok |-> TRUE, data |-> ConvResult]}
    \cup {[kind |-> "json", ok |-> FALSE, data |-> d] : d \in ErrorBodies}

\* alert(x) shows String(x): an absent property shows as "undefined"
AlertText(data, f) == IF Has(data, f) THEN data[f] ELSE "undefined"

(***************************************************************************)
(* The page after DOMContentLoaded.                                        *)
(***************************************************************************)
Init ==
    /\ page \in Pages
    /\ form = InitialForm
    /\ dropdown = [open |-> FALSE, selected |-> InitialClasses.selected,
                   text |-> InitialForm.method]
    /\ fetchBtn = [text |-> "Fetch Data", disabled |-> FALSE]
    /\ simulateBtn = [text |-> "Run Simulation", disabled |-> FALSE]
    /\ convergenceBtn = [text |-> "Analyze Convergence", disabled |-> FALSE,
                         hidden |-> InitialClasses.convergenceBtnHidden]
    /\ currentCurrency = "$"
    /\ labels = [currency |-> "($)", volSource |-> ""]
    /\ display = [resultsHidden |-> InitialClasses.resultsHidden,
                  convSectionHidden |-> InitialClasses.convSectionHidden,
                  bsCall |-> "", bsPut |-> "", mcCall |-> "", mcPut |-> "",
                  mcCallErr |-> "", mcPutErr |-> ""]
    /\ chartInstance = NoChart
    /\ convergenceChartInstance = NoChart
    /\ fetchReq = Idle
    /\ simReq = Idle
    /\ convReq = Idle
    /\ alerts = << >>
    /\ console = FALSE
    /\ lastClicked = "none"
    /\ gestures = 0
    /\ lastOk = "none"
    /\ declined = FALSE

(***************************************************************************)
(* The custom dropdown (lines 26-62).                                      *)
(***************************************************************************)
\* the button is never hidden
HiddenAfterSelect_Never(value) == FALSE

\* the test is made against the wrong method
HiddenAfterSelect_NotStandard(value) == value # "standard"

\* lines 46-52: the convergence button's hidden class after selecting value
HiddenAfterSelect(value) == value = "antithetic"

\* click on the dropdown trigger; the click bubbles to the document handler,
\* whose target is inside the trigger
TriggerClick ==
    /\ gestures < MaxGestures
    /\ UNCHANGED <<lastOk, declined>>
    /\ gestures' = gestures + 1
    /\ dropdown' = [dropdown EXCEPT !.open = ~@]
    /\ alerts' = << >>
    /\ console' = FALSE
    /\ UNCHANGED <<page, form, fetchBtn, simulateBtn, convergenceBtn,
                   currentCurrency, labels, display, chartInstance,
                   convergenceChartInstance, fetchReq, simReq, convReq,
                   lastClicked>>

\* click on the option whose data-value is o; stopPropagation keeps the click
\* from the trigger and from the document.  Without a #method input the
\* assignment of line 43 throws and the rest of the handler does not run.
OptionClick(o) ==
    /\ gestures < MaxGestures
    /\ UNCHANGED <<lastOk, declined>>
    /\ gestures' = gestures + 1
    /\ lastClicked' = o
    /\ alerts' = << >>
    /\ console' = FALSE
    /\ IF page.method
       THEN /\ dropdown' = [open |-> FALSE, selected |-> {o}, text |-> o]
            /\ form' = [form EXCEPT !.method = o]
            /\ convergenceBtn' =
                   IF page.convergenceBtn
                   THEN [convergenceBtn EXCEPT !.hidden = HiddenAfterSelect(o)]
                   ELSE convergenceBtn
       ELSE /\ dropdown' = [dropdown EXCEPT !.selected = {o}, !.text = o]
            /\ UNCHANGED <<form, convergenceBtn>>
    /\ UNCHANGED <<page, fetchBtn, simulateBtn, currentCurrency, labels, display,
                   chartInstance, convergenceChartInstance, fetchReq, simReq,
                   convReq>>

\* lines 58-62, for a click on anything outside the trigger that has no
\* handler of its own
DocumentClick ==
    /\ gestures < MaxGestures
    /\ UNCHANGED <<lastOk, declined>>
    /\ gestures' = gestures + 1
    /\ dropdown' = [dropdown EXCEPT !.open = FALSE]
    /\ alerts' = << >>
    /\ console' = FALSE
    /\ UNCHANGED <<page, form, fetchBtn, simulateBtn, convergenceBtn,
                   currentCurrency, labels, display, chartInstance,
                   convergenceChartInstance, fetchReq, simReq, convReq,
                   lastClicked>>

\* the user types v into input f
EditInput(f, v) ==
    /\ gestures < MaxGestures
    /\ UNCHANGED <<lastOk, declined>>
    /\ gestures' = gestures + 1
    /\ f = "q" => page.q
    /\ form[f] # v
    /\ form' = [form EXCEPT ![f] = v]
    /\ alerts' = << >>
    /\ console' = FALSE
    /\ UNCHANGED <<page, dropdown, fetchBtn, simulateBtn, convergenceBtn,
                   currentCurrency, labels, display, chartInstance,
                   convergenceChartInstance, fetchReq, simReq, convReq,
                   lastClicked>>

(***************************************************************************)
(* Fetch stock data (lines 64-106).                                        *)
(***************************************************************************)
\* the test is left out
NoTicker_Never(ticker) == FALSE

\* line 67: !ticker
NoTicker(ticker) == ticker = ""

\* lines 65-77: up to the await; an empty ticker returns at once
FetchClick ==
    /\ gestures < MaxGestures
    /\ UNCHANGED lastOk
    /\ gestures' = gestures + 1
    /\ ~fetchBtn.disabled
    /\ dropdown' = [dropdown EXCEPT !.open = FALSE]
    /\ alerts' = << >>
    /\ console' = FALSE
    /\ LET ticker == ToUpperCase(form.ticker)
       IN  IF NoTicker(ticker)
           THEN /\ UNCHANGED <<fetchBtn, fetchReq>>
                /\ declined' = TRUE
           ELSE /\ fetchBtn' = [text |-> "Loading...", disabled |-> TRUE]
                /\ fetchReq' = [phase |-> "sent", ticker |-> ticker]
                /\ UNCHANGED declined
    /\ UNCHANGED <<page, form, simulateBtn, convergenceBtn, currentCurrency,
                   labels, display, chartInstance, convergenceChartInstance,
                   simReq, convReq, lastClicked>>

\* the market-data endpoint answers, or the request fails
FetchRespond(o) ==
    /\ UNCHANGED <<gestures, lastOk, declined>>
    /\ fetchReq.phase = "sent"
    /\ fetchReq' = [phase |-> "settled", ticker |-> fetchReq.ticker, outcome |-> o]
    /\ alerts' = << >>
    /\ console' = FALSE
    /\ UNCHANGED <<page, form, dropdown, fetchBtn, simulateBtn, convergenceBtn,
                   currentCurrency, labels, display, chartInstance,
                   convergenceChartInstance, simReq, convReq, lastClicked>>

\* a response without currency leaves the symbol empty
CurrencySymbol_NoDefault(data) ==
    IF Has(data, "currency") THEN data.currency ELSE ""

\* line 89: data.currency || '$'
CurrencySymbol(data) ==
    IF Has(data, "currency") /\ data.currency # "" THEN data.currency ELSE "$"

\* lines 82-95 on the page st = [form, currentCurrency, labels, threw]: the
\* statements run in order up to the first one that throws
ApplyQuote(st, data, ticker, pg) ==
    IF ~Has(data, "current_price") THEN [st EXCEPT !.threw = TRUE]
    ELSE LET f1 == [st.form EXCEPT !.S0 = ToFixed(data.current_price, 2)]
         IN  IF ~Has(data, "volatility")
             THEN [st EXCEPT !.form = f1, !.threw = TRUE]
             ELSE LET f2 == [f1 EXCEPT !.sigma = ToFixed(data.volatility, 4),
                                       !.r = NumberToString(data.risk_free_rate),
                                       !.K = ToFixed(data.current_price, 2)]
                      f3 == IF pg.q THEN [f2 EXCEPT !.q = "0.0"] ELSE f2
                      currencySymbol == CurrencySymbol(data)
                  IN  [form |-> f3,
                       currentCurrency |-> currencySymbol,
                       labels |-> [currency |-> "(" \o currencySymbol \o ")",
                                   volSource |-> "Historical Volatility (1Y) for "
                                                 \o ticker],
                       threw |-> FALSE]

\* the else branch of line 96 forgets its alert
FetchAlerts_ElseSilent(o, threw) ==
    IF o.kind # "json" \/ threw THEN <<"Failed to connect to server">> ELSE << >>

\* lines 96-101: the alerts of a fetch that did not succeed
FetchAlerts(o, threw) ==
    IF o.kind = "json" /\ ~o.ok
    THEN <<IF Has(o.data, "error") THEN o.data.error ELSE "Error fetching data">>
    ELSE IF o.kind # "json" \/ threw THEN <<"Failed to connect to server">>
    ELSE << >>

\* lines 102-105
FetchFinally == [text |-> "Fetch Data", disabled |-> FALSE]

\* lines 79-105: the handler after its awaits
FetchResume ==
    /\ UNCHANGED <<gestures, lastOk, declined>>
    /\ fetchReq.phase = "settled"
    /\ LET o  == fetchReq.outcome
           st == [form |-> form, currentCurrency |-> currentCurrency,
                  labels |-> labels, threw |-> FALSE]
           after == IF o.kind = "json" /\ o.ok
                    THEN ApplyQuote(st, o.data, fetchReq.ticker, page)
                    ELSE st
       IN  /\ form' = after.form
           /\ currentCurrency' = after.currentCurrency
           /\ labels' = after.labels
           /\ alerts' = FetchAlerts(o, after.threw)
           /\ console' = (o.kind # "json" \/ after.threw)
    /\ fetchBtn' = FetchFinally
    /\ fetchReq' = Idle
    /\ UNCHANGED <<page, dropdown, simulateBtn, convergenceBtn, display,
                   chartInstance, convergenceChartInstance, simReq, convReq,
                   lastClicked>>

(***************************************************************************)
(* Run simulation (lines 108-146, 189-257).                                *)
(***************************************************************************)
\* q is never read from the form
PayloadQ_AlwaysZero(f, pg) == JsonZero

\* line 121 / line 160: q ? q.value : 0.0
PayloadQ(f, pg) == IF pg.q THEN JsonString(f.q) ELSE JsonZero

\* the method input is never read
PayloadMethod_Default(f, pg) == JsonString("standard")

\* line 123 / line 161: methodSelect ? methodSelect.value : 'standard'
PayloadMethod(f, pg) == JsonString(IF pg.method THEN f.method ELSE "standard")

\* lines 115-124, as JSON.stringify sends it
SimulatePayload(f, pg) ==
    [S0 |-> JsonString(f.S0), K |-> JsonString(f.K), T |-> JsonString(f.T),
     r |-> JsonString(f.r), sigma |-> JsonString(f.sigma), q |-> PayloadQ(f, pg),
     steps |-> JsonString(f.steps), method |-> PayloadMethod(f, pg)]

\* lines 109-131: up to the await.  atSubmit is history: the currency symbol
\* in force when the request was made.
SimulateSubmit ==
    /\ gestures < MaxGestures
    /\ UNCHANGED <<lastOk, declined>>
    /\ gestures' = gestures + 1
    /\ ~simulateBtn.disabled
    /\ simulateBtn' = [text |-> "Running Simulation...", disabled |-> TRUE]
    /\ simReq' = [phase |-> "sent", payload |-> SimulatePayload(form, page),
                  atSubmit |-> currentCurrency]
    /\ dropdown' = [dropdown EXCEPT !.open = FALSE]
    /\ alerts' = << >>
    /\ console' = FALSE
    /\ UNCHANGED <<page, form, fetchBtn, convergenceBtn, currentCurrency, labels,
                   display, chartInstance, convergenceChartInstance, fetchReq,
                   convReq, lastClicked>>

\* the simulate endpoint answers, or the request fails
SimulateRespond(o) ==
    /\ UNCHANGED <<gestures, lastOk, declined>>
    /\ simReq.phase = "sent"
    /\ simReq' = [phase |-> "settled", outcome |-> o, atSubmit |-> simReq.atSubmit]
    /\ alerts' = << >>
    /\ console' = FALSE
    /\ UNCHANGED <<page, form, dropdown, fetchBtn, simulateBtn, convergenceBtn,
                   currentCurrency, labels, display, chartInstance,
                   convergenceChartInstance, fetchReq, convReq, lastClicked>>

\* chart.destroy()
Destroy(chart) ==
    IF chart = NoChart THEN chart
    ELSE <<[chart[1] EXCEPT !.destroys = IF @ < 2 THEN @ + 1 ELSE @]>>

\* the labels count from 0
Datasets_FromZero(paths) ==
    [k \in 1..Len(paths) |->
        [label |-> "Path " \o ToString(k - 1), data |-> paths[k]]]

\* line 218-226: one dataset per path
Datasets(paths) ==
    [k \in 1..Len(paths) |-> [label |-> "Path " \o ToString(k), data |-> paths[k]]]

\* lines 210-257 on st = [display, chart, threw]; chartThrows: new Chart throws
RenderChart(st, mcData, chartThrows) ==
    LET destroyed == Destroy(st.chart)
    IN  IF ~Has(mcData, "paths")
        THEN [st EXCEPT !.chart = destroyed, !.threw = TRUE]
        ELSE IF chartThrows
        THEN [st EXCEPT !.chart = destroyed]
        ELSE [st EXCEPT !.chart = <<[canvas |-> "simulationChart",
                                     labels |-> mcData.steps,
                                     datasets |-> Datasets(mcData.paths),
                                     destroys |-> 0]>>]

\* line 195: the format closure reads currentCurrency when it is called
Format(cur, num) == cur \o ToFixed(num, 4)

\* lines 203-204 ("+-" stands for the plus-minus sign)
FormatErr(num) == "+-" \o ToFixed(num, 4)

\* lines 197-204 are six textContent assignments; toFixed throws on a price
\* that is missing.  The number of the first assignment that throws, 7 if
\* none does.
FirstThrow(data) ==
    IF ~Has(data.bs, "call_price") THEN 1
    ELSE IF ~Has(data.bs, "put_price") THEN 2
    ELSE IF ~Has(data.mc, "call_price") THEN 3
    ELSE IF ~Has(data.mc, "put_price") THEN 4
    ELSE IF ~Has(data.mc, "call_stderr") THEN 5
    ELSE IF ~Has(data.mc, "put_stderr") THEN 6
    ELSE 7

\* the convergence section is left as it is
SectionsAfterResults_NoHide(d) == [d EXCEPT !.resultsHidden = FALSE]

\* lines 190-192: the results section is shown, the convergence section hidden
SectionsAfterResults(d) ==
    [d EXCEPT !.resultsHidden = FALSE, !.convSectionHidden = TRUE]

\* lines 189-208 on st = [display, chart, threw]: the assignments before the
\* first one that throws take effect, then the chart is rendered
DisplayResults(st, data, cur, chartThrows) ==
    LET n == FirstThrow(data)
        shown ==
            [SectionsAfterResults(st.display) EXCEPT
                !.bsCall = IF 1 < n THEN Format(cur, data.bs.call_price) ELSE @,
                !.bsPut = IF 2 < n THEN Format(cur, data.bs.put_price) ELSE @,
                !.mcCall = IF 3 < n THEN Format(cur, data.mc.call_price) ELSE @,
                !.mcPut = IF 4 < n THEN Format(cur, data.mc.put_price) ELSE @,
                !.mcCallErr = IF 5 < n THEN FormatErr(data.mc.call_stderr) ELSE @,
                !.mcPutErr = IF 6 < n THEN FormatErr(data.mc.put_stderr) ELSE @]
    IN  IF n <= 6
        THEN [display |-> shown, chart |-> st.chart, threw |-> TRUE]
        ELSE RenderChart([display |-> shown, chart |-> st.chart, threw |-> FALSE],
                         data.mc, chartThrows)

\* the else branch of line 137 forgets its alert
SimulateAlerts_Silent(o) == << >>

\* lines 137-141: the alerts of a simulation that did not succeed
SimulateAlerts(o) ==
    IF o.kind = "json" /\ ~o.ok THEN <<AlertText(o.data, "error")>> ELSE << >>

\* the button is restored in the try block only, never reached
SimulateFinally_Skipped == [text |-> "Running Simulation...", disabled |-> TRUE]

\* lines 142-145
SimulateFinally == [text |-> "Run Simulation", disabled |-> FALSE]

\* lines 133-145: the handler after its awaits
SimulateResume ==
    /\ UNCHANGED gestures
    /\ simReq.phase = "settled"
    /\ lastOk' = IF simReq.outcome.kind = "json" /\ simReq.outcome.ok
                 THEN "simulate" ELSE lastOk
    /\ UNCHANGED declined
    /\ \E chartThrows \in BOOLEAN :
         LET o  == simReq.outcome
             st == [display |-> display, chart |-> chartInstance, threw |-> FALSE]
             after == IF o.kind = "json" /\ o.ok
                      THEN DisplayResults(st, o.data, currentCurrency, chartThrows)
                      ELSE st
         IN  /\ display' = after.display
             /\ chartInstance' = after.chart
             /\ alerts' = SimulateAlerts(o)
             /\ console' = (o.kind # "json" \/ after.threw
                            \/ (o.ok /\ Has(o.data.mc, "paths") /\ chartThrows))
    /\ simulateBtn' = SimulateFinally
    /\ simReq' = Idle
    /\ UNCHANGED <<page, form, dropdown, fetchBtn, convergenceBtn, currentCurrency,
                   labels, convergenceChartInstance, fetchReq, convReq, lastClicked>>

(***************************************************************************)
(* Analyze convergence (lines 148-187, 259-311).                           *)
(***************************************************************************)
\* lines 154-162, as JSON.stringify sends it
ConvergencePayload(f, pg) ==
    [S0 |-> JsonString(f.S0), K |-> JsonString(f.K), T |-> JsonString(f.T),
     r |-> JsonString(f.r), sigma |-> JsonString(f.sigma), q |-> PayloadQ(f, pg),
     method |-> PayloadMethod(f, pg)]

\* lines 150-169: up to the await; a button carrying the hidden class cannot
\* be clicked
ConvergenceClick ==
    /\ gestures < MaxGestures
    /\ UNCHANGED <<lastOk, declined>>
    /\ gestures' = gestures + 1
    /\ page.convergenceBtn
    /\ ~convergenceBtn.hidden
    /\ ~convergenceBtn.disabled
    /\ convergenceBtn' = [convergenceBtn EXCEPT !.text = "Analyzing...",
                                                !.disabled = TRUE]
    /\ convReq' = [phase |-> "sent", payload |-> ConvergencePayload(form, page)]
    /\ dropdown' = [dropdown EXCEPT !.open = FALSE]
    /\ alerts' = << >>
    /\ console' = FALSE
    /\ UNCHANGED <<page, form, fetchBtn, simulateBtn, currentCurrency, labels,
                   display, chartInstance, convergenceChartInstance, fetchReq,
                   simReq, lastClicked>>

\* the convergence endpoint answers, or the request fails
ConvergenceRespond(o) ==
    /\ UNCHANGED <<gestures, lastOk, declined>>
    /\ convReq.phase = "sent"
    /\ convReq' = [phase |-> "settled", outcome |-> o]
    /\ alerts' = << >>
    /\ console' = FALSE
    /\ UNCHANGED <<page, form, dropdown, fetchBtn, simulateBtn, convergenceBtn,
                   currentCurrency, labels, display, chartInstance,
                   convergenceChartInstance, fetchReq, simReq, lastClicked>>

\* lines 259-311 on st = [chart, threw]; new Chart is not guarded here
RenderConvergenceChart(st, data, chartThrows) ==
    LET destroyed == Destroy(st.chart)
    IN  IF chartThrows
        THEN [chart |-> destroyed, threw |-> TRUE]
        ELSE [chart |-> <<[canvas |-> "convergenceChart",
                           labels |-> data.x,
                           datasets |-> <<[label |-> "Monte Carlo Estimate",
                                           data |-> data.y],
                                          [label |-> "Black-Scholes Price",
                                           data |-> data.bs_line]>>,
                           destroys |-> 0]>>,
              threw |-> FALSE]

\* lines 177-181: the alerts of an analysis that did not succeed
ConvergenceAlerts(o) ==
    IF o.kind = "json" /\ ~o.ok THEN <<AlertText(o.data, "error")>> ELSE << >>

\* the label is restored, the button is not enabled again
ConvergenceFinally_TextOnly(btn) == [btn EXCEPT !.text = "Analyze Convergence"]

\* lines 182-185
ConvergenceFinally(btn) ==
    [btn EXCEPT !.text = "Analyze Convergence", !.disabled = FALSE]

\* lines 171-185: the handler after its awaits
ConvergenceResume ==
    /\ UNCHANGED gestures
    /\ convReq.phase = "settled"
    /\ lastOk' = IF convReq.outcome.kind = "json" /\ convReq.outcome.ok
                 THEN "convergence" ELSE lastOk
    /\ UNCHANGED declined
    /\ \E chartThrows \in BOOLEAN :
         LET o  == convReq.outcome
             st == [chart |-> convergenceChartInstance, threw |-> FALSE]
             ok == o.kind = "json" /\ o.ok
             after == IF ok THEN RenderConvergenceChart(st, o.data, chartThrows)
                      ELSE st
         IN  /\ display' = IF ok THEN [display EXCEPT !.convSectionHidden = FALSE]
                           ELSE display
             /\ convergenceChartInstance' = after.chart
             /\ alerts' = ConvergenceAlerts(o)
             /\ console' = (o.kind # "json" \/ after.threw)
    /\ convergenceBtn' = ConvergenceFinally(convergenceBtn)
    /\ convReq' = Idle
    /\ UNCHANGED <<page, form, dropdown, fetchBtn, simulateBtn, currentCurrency,
                   labels, chartInstance, fetchReq, simReq, lastClicked>>

(***************************************************************************)
(* The specifications.                                                     *)
(***************************************************************************)
Next ==
    \/ TriggerClick
    \/ \E o \in Methods : OptionClick(o)
    \/ DocumentClick
    \/ \E f \in DOMAIN EditValues : \E v \in EditValues[f] : EditInput(f, v)
    \/ FetchClick
    \/ \E o \in FetchOutcomes : FetchRespond(o)
    \/ FetchResume
    \/ SimulateSubmit
    \/ \E o \in SimOutcomes : SimulateRespond(o)
    \/ SimulateResume
    \/ ConvergenceClick
    \/ \E o \in ConvOutcomes : ConvergenceRespond(o)
    \/ ConvergenceResume

Spec == Init /\ [][Next]_vars

\* one request's promise chain: its answer arrives, then its handler resumes
FetchSettle == (\E o \in FetchOutcomes : FetchRespond(o)) \/ FetchResume
SimulateSettle == (\E o \in SimOutcomes : SimulateRespond(o)) \/ SimulateResume
ConvergenceSettle == (\E o \in ConvOutcomes : ConvergenceRespond(o)) \/ ConvergenceResume

\* the page with every optional element present
FairInit == Init /\ page = AllPresent

\* every request is eventually answered or fails, and the event loop runs
\* every continuation whose promise has settled
FairSpec ==
    /\ FairInit
    /\ [][Next]_vars
    /\ WF_vars(FetchSettle)
    /\ WF_vars(SimulateSettle)
    /\ WF_vars(ConvergenceSettle)

(***************************************************************************)
(* Properties.                                                             *)
(***************************************************************************)
\* steps of the three handlers, recognised by the requests' phases
SimulateStarts == simReq.phase = "idle" /\ simReq'.phase = "sent"
SimulateSettles == simReq.phase = "settled" /\ simReq'.phase = "idle"
ConvergenceStarts == convReq.phase = "idle" /\ convReq'.phase = "sent"
ConvergenceSettles == convReq.phase = "settled" /\ convReq'.phase = "idle"
FetchSettles == fetchReq.phase = "settled" /\ fetchReq'.phase = "idle"

\* the answer o is a non-OK response whose body parsed
NotOk(o) == o.kind = "json" /\ ~o.ok
\* the answer o is a non-OK response, a rejected request or an unparsable body
Failed(o) == o.kind # "json" \/ ~o.ok
\* the answer o is an OK response carrying a complete pricing result
Priced(o) == o.kind = "json" /\ o.ok /\ o.data \in SimResults

\* C1: a Convergence request in flight never carries method 'antithetic'.
C1_NoAntitheticConvergence ==
    convReq.phase = "sent" => convReq.payload.method # "\"antithetic\""

C1_Witness ==
    /\ convReq.phase = "sent"
    /\ convReq.payload.method = "\"control_variate\""
    /\ lastClicked = "control_variate"

\* C2: every failed Simulate or Convergence request (non-OK response, rejected
\* request or unparsable body) raises an alert in the step that handles it.
C2_EveryFailureAlerts ==
    [][/\ (SimulateSettles /\ Failed(simReq.outcome)) => alerts' # << >>
       /\ (ConvergenceSettles /\ Failed(convReq.outcome)) => alerts' # << >>]_vars

\* C3: handling a non-OK Simulate response alerts the server's error message
\* and leaves the results section, the convergence section, the six result
\* texts and the path chart as they were.
C3_ErrorShownNothingDisplayed ==
    [][(SimulateSettles /\ NotOk(simReq.outcome)) =>
          /\ Len(alerts') = 1
          /\ Has(simReq.outcome.data, "error") =>
                 alerts' = <<simReq.outcome.data.error>>
          /\ display' = display
          /\ chartInstance' = chartInstance]_vars

C3_Witness ==
    /\ alerts = <<"Invalid parameter">>
    /\ simReq.phase = "idle"
    /\ ~display.resultsHidden
    /\ display.mcPutErr # ""
    /\ chartInstance # NoChart

\* the outputs a Simulate response feeds
Outputs ==
    <<display.bsCall, display.bsPut, display.mcCall, display.mcPut,
      display.mcCallErr, display.mcPutErr, chartInstance>>

\* the outputs when all of them show the result d in currency cur
OutputsOf(d, cur) ==
    <<cur \o ToFixed(d.bs.call_price, 4), cur \o ToFixed(d.bs.put_price, 4),
      cur \o ToFixed(d.mc.call_price, 4), cur \o ToFixed(d.mc.put_price, 4),
      "+-" \o ToFixed(d.mc.call_stderr, 4), "+-" \o ToFixed(d.mc.put_stderr, 4),
      <<[canvas |-> "simulationChart", labels |-> d.mc.steps,
         datasets |-> [k \in 1..Len(d.mc.paths) |->
                          [label |-> "Path " \o ToString(k), data |-> d.mc.paths[k]]],
         destroys |-> 0]>> >>

\* C4: handling one Simulate response updates all the displayed outputs from
\* that response, or none of them.
C4_AllOrNothing ==
    [][SimulateSettles =>
          \/ Outputs' = Outputs
          \/ /\ Priced(simReq.outcome)
             /\ \E cur \in {currentCurrency, simReq.atSubmit} :
                    Outputs' = OutputsOf(simReq.outcome.data, cur)]_vars

\* C5: the results of a Simulate request are shown with the currency symbol
\* that was current when the request was made.
C5_CurrencyOfTheRequest ==
    [][(SimulateSettles /\ Priced(simReq.outcome)) =>
          /\ display'.bsCall =
                 simReq.atSubmit \o ToFixed(simReq.outcome.data.bs.call_price, 4)
          /\ display'.mcCall =
                 simReq.atSubmit \o ToFixed(simReq.outcome.data.mc.call_price, 4)]_vars

\* C6: once a request is started, its button is eventually enabled again
\* and shows its idle label, whatever the outcome.
C6_ButtonsRestored ==
    /\ (fetchReq.phase = "sent") ~>
           (fetchReq.phase = "idle"
            /\ fetchBtn = [text |-> "Fetch Data", disabled |-> FALSE])
    /\ (simReq.phase = "sent") ~>
           (simReq.phase = "idle"
            /\ simulateBtn = [text |-> "Run Simulation", disabled |-> FALSE])
    /\ (convReq.phase = "sent") ~>
           (convReq.phase = "idle"
            /\ convergenceBtn.text = "Analyze Convergence"
            /\ ~convergenceBtn.disabled)

\* a response whose handling threw half-way, and the button restored after it
C6_Witness ==
    /\ simReq.phase = "idle"
    /\ console
    /\ alerts = << >>
    /\ display.mcPut # ""
    /\ display.mcCallErr = ""
    /\ simulateBtn = [text |-> "Run Simulation", disabled |-> FALSE]

\* C7: a Simulate request carries exactly S0, K, T, r, sigma, q, steps and
\* method, each as the form holds it at submit time; the method is the method
\* input's value, which is the most recently clicked option's data-value, and
\* 'standard' without a method input.
C7_SimulatePayload ==
    [][SimulateStarts =>
          /\ simReq'.payload =
                 [S0 |-> JsonString(form.S0), K |-> JsonString(form.K),
                  T |-> JsonString(form.T), r |-> JsonString(form.r),
                  sigma |-> JsonString(form.sigma),
                  q |-> IF page.q THEN JsonString(form.q) ELSE "0",
                  steps |-> JsonString(form.steps),
                  method |-> IF page.method THEN JsonString(form.method)
                             ELSE "\"standard\""]
          /\ (page.method /\ lastClicked # "none") =>
                 simReq'.payload.method = JsonString(lastClicked)]_vars

C7_Witness ==
    /\ simReq.phase = "sent"
    /\ lastClicked = "antithetic"
    /\ simReq.payload.method = "\"antithetic\""
    /\ simReq.payload.q = "\"0.02\""

\* C8: handling a failed stock-data fetch (non-OK response, rejected request
\* or unparsable body) alerts a data-fetch error and changes no input, the
\* currency symbol, no label and no pricing request.
C8_FetchFailureTouchesNothing ==
    [][(FetchSettles /\ Failed(fetchReq.outcome)) =>
          /\ alerts' \in {<<"Ticker not found">>, <<"Error fetching data">>,
                          <<"Failed to connect to server">>}
          /\ NotOk(fetchReq.outcome) /\ Has(fetchReq.outcome.data, "error") =>
                 alerts' = <<fetchReq.outcome.data.error>>
          /\ form' = form
          /\ currentCurrency' = currentCurrency
          /\ labels' = labels
          /\ simReq' = simReq
          /\ convReq' = convReq]_vars

C8_Witness ==
    /\ alerts = <<"Ticker not found">>
    /\ fetchReq.phase = "idle"
    /\ form.S0 = "110.00"
    /\ currentCurrency = "Rs"

\* C9: every Simulate and Convergence request carries q = 0 when the page has
\* no q input, and the q input's value otherwise.
C9_QDefaultsToZero ==
    [][/\ SimulateStarts =>
              simReq'.payload.q = IF page.q THEN "\"" \o form.q \o "\"" ELSE "0"
       /\ ConvergenceStarts =>
              convReq'.payload.q = IF page.q THEN "\"" \o form.q \o "\"" ELSE "0"]_vars

\* both requests in flight from a page without a q input
C9_Witness ==
    /\ ~page.q
    /\ simReq.phase = "sent" /\ simReq.payload.q = "0"
    /\ convReq.phase = "sent" /\ convReq.payload.q = "0"

\* a request carrying the value typed into the q input
C9_WitnessValue ==
    /\ page.q
    /\ convReq.phase = "sent" /\ convReq.payload.q = "\"0.02\""

\* C10: once an option has been clicked, the convergence button is hidden
\* exactly when the method input's value is 'antithetic'.
C10_HiddenIffAntithetic ==
    (lastClicked # "none" /\ page.convergenceBtn) =>
        (convergenceBtn.hidden <=> (page.method /\ form.method = "antithetic"))

C10_Witness ==
    /\ convergenceBtn.hidden
    /\ form.method = "antithetic"
    /\ convReq.phase = "settled"
    /\ simReq.phase = "sent"

\* the answer o is an OK response whose body parsed
Ok(o) == o.kind = "json" /\ o.ok

\* C11: each button is disabled exactly while its operation's request is in
\* flight, and a request is only ever sent when none of its kind is in flight.
C11_DisabledWhileInFlight ==
    /\ [](/\ fetchBtn.disabled <=> fetchReq.phase # "idle"
          /\ simulateBtn.disabled <=> simReq.phase # "idle"
          /\ convergenceBtn.disabled <=> convReq.phase # "idle")
    /\ [][/\ (FetchClick /\ fetchReq'.phase = "sent") => fetchReq.phase = "idle"
          /\ SimulateSubmit => simReq.phase = "idle"
          /\ ConvergenceClick => convReq.phase = "idle"]_vars

\* requests of two kinds in flight at once
C11_Witness ==
    /\ fetchReq.phase = "sent" /\ fetchBtn.disabled
    /\ simReq.phase = "settled" /\ simulateBtn.disabled
    /\ convReq.phase = "idle" /\ ~convergenceBtn.disabled

\* C12: the convergence section is visible exactly when the OK response
\* handled last, among Simulate and Convergence, was a Convergence response;
\* only the handling of an OK Simulate or Convergence response changes its
\* visibility; the results section, once shown, is never hidden again.
C12_SectionFollowsLastOk ==
    /\ [](~display.convSectionHidden <=> lastOk = "convergence")
    /\ [](lastOk = "simulate" => ~display.resultsHidden)
    /\ [][/\ (SimulateSettles /\ Ok(simReq.outcome)) => display'.convSectionHidden
          /\ (ConvergenceSettles /\ Ok(convReq.outcome)) =>
                 ~display'.convSectionHidden
          /\ display'.convSectionHidden # display.convSectionHidden =>
                 \/ SimulateSettles /\ Ok(simReq.outcome)
                 \/ ConvergenceSettles /\ Ok(convReq.outcome)
          /\ ~display.resultsHidden => ~display'.resultsHidden]_vars

\* a Simulate response handled after a Convergence response hid the section
C12_Witness ==
    /\ lastOk = "simulate"
    /\ display.convSectionHidden
    /\ convergenceChartInstance # NoChart
    /\ alerts = << >>

\* the chart object c has not been destroyed
Live(c) == c # NoChart /\ c[1].destroys = 0

\* C13: each stored chart instance is null or a chart that has not been
\* destroyed, and no chart has been destroyed more than once.
C13_StoredChartsLive ==
    \A c \in {chartInstance, convergenceChartInstance} :
        c = NoChart \/ c[1].destroys = 0

\* C14: an option click leaves exactly the clicked option selected, the method
\* input holding its data-value and the dropdown closed; a trigger click
\* toggles the dropdown; any other click leaves the dropdown closed.
C14_DropdownFollowsClicks ==
    [][/\ \A o \in Methods :
              OptionClick(o) => /\ dropdown'.selected = {o}
                                /\ page.method => form'.method = o
                                /\ ~dropdown'.open
       /\ TriggerClick => (dropdown'.open <=> ~dropdown.open)
       /\ (DocumentClick \/ FetchClick \/ SimulateSubmit \/ ConvergenceClick) =>
              ~dropdown'.open]_vars

\* the fields an OK quote response sets, with sigma holding text vol
QuoteApplied(data, vol) ==
    /\ form'.S0 = ToFixed(data.current_price, 2)
    /\ form'.K = form'.S0
    /\ form'.sigma = vol
    /\ form'.r = NumberToString(data.risk_free_rate)
    /\ page.q => form'.q = "0.0"
    /\ currentCurrency' = (IF Has(data, "currency") THEN data.currency ELSE "$")
    /\ labels'.currency = "(" \o currentCurrency' \o ")"
    /\ UNCHANGED <<simReq, convReq, display, chartInstance,
                   convergenceChartInstance>>
    /\ form'.method = form.method

\* an OK quote response carrying every field is handled in this step
QuoteHandled(data) ==
    /\ FetchSettles
    /\ Ok(fetchReq.outcome)
    /\ fetchReq.outcome.data = data

\* C15 as stated: handling an OK quote response sets S0 and K to the price
\* with 2 decimals, sigma to the returned volatility, r to the returned rate,
\* q to '0.0', the currency symbol and labels to the returned currency or '$',
\* and touches no request, result, chart or method.
C15_AsStated ==
    [][\A data \in Quotes :
           QuoteHandled(data) =>
               QuoteApplied(data, NumberToString(data.volatility))]_vars

\* C15: as above, with sigma set to the returned volatility rounded to 4
\* decimals.
C15_QuoteBecomesInputs ==
    [][\A data \in Quotes :
           QuoteHandled(data) =>
               QuoteApplied(data, ToFixed(data.volatility, 4))]_vars

\* a quote with a 5-decimal volatility has been applied
C15_Witness ==
    /\ form.S0 = "110.00"
    /\ form.K = "110.00"
    /\ form.sigma = "0.2124"
    /\ currentCurrency = "Rs"
    /\ fetchReq.phase = "idle"

\* C16: a Fetch click with an empty ticker sends no request and leaves the
\* fetch button, every input, every label and the currency symbol as they were.
C16_EmptyTickerNoEffect ==
    [][(FetchClick /\ form.ticker = "") =>
           /\ UNCHANGED <<fetchReq, simReq, convReq>>
           /\ UNCHANGED <<fetchBtn, form, labels, currentCurrency>>
           /\ ~fetchBtn'.disabled /\ fetchBtn'.text = "Fetch Data"]_vars

\* the state right after a Fetch click on the freshly loaded page
C16_Witness ==
    /\ declined
    /\ gestures = 1
    /\ form.ticker = ""
    /\ fetchReq.phase = "idle"
    /\ ~fetchBtn.disabled

====
